---- MODULE Spec2Model ----
(***************************************************************************)
(* Steam Connect Redirector: the request handler of src/worker.js and the  *)
(* hardened handler listed in src/README.md (range blocking, JSON errors,  *)
(* security headers), with the pure functions isValidIPv4,                 *)
(* isPrivateOrReservedIP, ipInCidr and ipv4ToInt.                          *)
(*                                                                         *)
(* A JavaScript string is a sequence of one-character strings; the value   *)
(* null is NULL.  A JavaScript number that takes part in 32-bit bitwise    *)
(* arithmetic is a word [hi, lo] denoting hi * 2^16 + lo, so that 2^32 and *)
(* every unsigned 32-bit value are exact.                                  *)
(***************************************************************************)
EXTENDS Integers, Sequences, FiniteSets, TLC

VARIABLES variant, request, response, call, ret

vars == <<variant, request, response, call, ret>>

----------------------------------------------------------------------------
(* Bounds of the explored inputs.                                          *)

\* the longest run of "0" put in front of a port or an octet
MaxLeadingZeros == 3
\* how far around each block edge the octets of the classifier inputs go
OctetSpread == 1

----------------------------------------------------------------------------
(* JavaScript strings.                                                     *)

NULL == <<"NULL">>

DigitChars == {"0", "1", "2", "3", "4", "5", "6", "7", "8", "9"}

DigitSeq == <<"0", "1", "2", "3", "4", "5", "6", "7", "8", "9">>

DigitVal(c) == (CHOOSE i \in 1..10 : DigitSeq[i] = c) - 1

\* !v for a value that is a string or null
Falsy(v) == v = NULL \/ v = <<>>

\* /^\d+$/.test(s)
AllDigits(s) == Len(s) >= 1 /\ \A i \in 1..Len(s) : s[i] \in DigitChars

RECURSIVE Split(_, _)
\* s.split(sep) for a one-character separator
Split(s, sep) ==
    IF \E i \in 1..Len(s) : s[i] = sep
    THEN LET i == CHOOSE k \in 1..Len(s) :
                      s[k] = sep /\ \A j \in 1..(k - 1) : s[j] # sep
         IN  <<SubSeq(s, 1, i - 1)>> \o Split(SubSeq(s, i + 1, Len(s)), sep)
    ELSE <<s>>

----------------------------------------------------------------------------
(* JavaScript numbers as the handlers use them: an integer or NaN.         *)

Num(n) == [nan |-> FALSE, v |-> n]

NaN == [nan |-> TRUE, v |-> 0]

isNaN(x) == x.nan

\* x < y and x > y; every comparison with NaN is false
Less(x, y) == ~x.nan /\ ~y.nan /\ x.v < y.v

Greater(x, y) == Less(y, x)

RECURSIVE DigitsValue(_)
\* the integer a string of decimal digits denotes
DigitsValue(s) ==
    IF s = <<>> THEN 0
    ELSE 10 * DigitsValue(SubSeq(s, 1, Len(s) - 1)) + DigitVal(s[Len(s)])

WhiteSpace == {" "}

RECURSIVE TrimStart(_)
TrimStart(s) ==
    IF s # <<>> /\ s[1] \in WhiteSpace THEN TrimStart(Tail(s)) ELSE s

RECURSIVE DigitPrefix(_)
\* the longest prefix of s made of decimal digits
DigitPrefix(s) ==
    IF s # <<>> /\ s[1] \in DigitChars
    THEN <<s[1]>> \o DigitPrefix(Tail(s))
    ELSE <<>>

\* parseInt(s, 10): leading white space is skipped, one sign is read, then
\* the longest run of digits; no digit gives NaN
parseInt(s) ==
    LET t    == TrimStart(s)
        neg  == t # <<>> /\ t[1] = "-"
        body == IF t # <<>> /\ t[1] \in {"+", "-"} THEN Tail(t) ELSE t
        ds   == DigitPrefix(body)
    IN  IF ds = <<>> THEN NaN
        ELSE Num(IF neg THEN 0 - DigitsValue(ds) ELSE DigitsValue(ds))

\* Number(s), on the strings isValidIPv4 passes to it: the caller has
\* already matched s against /^\d+$/
Number(s) == IF AllDigits(s) THEN Num(DigitsValue(s)) ELSE NaN

RECURSIVE NatToString(_)
NatToString(n) ==
    IF n < 10 THEN <<DigitSeq[n + 1]>>
    ELSE NatToString(n \div 10) \o <<DigitSeq[(n % 10) + 1]>>

\* `${x}` for a number x
NumberToString(x) ==
    IF x.nan THEN <<"N", "a", "N">>
    ELSE IF x.v < 0 THEN <<"-">> \o NatToString(0 - x.v)
    ELSE NatToString(x.v)

----------------------------------------------------------------------------
(* 32-bit arithmetic on words.                                             *)

RECURSIVE Pow2(_)
Pow2(n) == IF n = 0 THEN 1 ELSE 2 * Pow2(n - 1)

TwoTo16 == Pow2(16)

TwoTo15 == Pow2(15)

Word(h, l) == [hi |-> h, lo |-> l]

\* ToInt32: the value modulo 2^32, read as a signed 32-bit integer
ToInt32(w) ==
    LET h == w.hi % TwoTo16
    IN  Word(IF h >= TwoTo15 THEN h - TwoTo16 ELSE h, w.lo)

\* ToUint32, as x >>> 0 does
ToUint32(w) == Word(w.hi % TwoTo16, w.lo)

\* x + n for an integer n in 0..65535
WordAdd(w, n) ==
    LET s == w.lo + n
    IN  Word(w.hi + (s \div TwoTo16), s % TwoTo16)

\* x - 1
WordDec(w) == IF w.lo > 0 THEN Word(w.hi, w.lo - 1) ELSE Word(w.hi - 1, TwoTo16 - 1)

\* 2 ** n for n in 0..32, exact
WordPow2(n) == IF n < 16 THEN Word(0, Pow2(n)) ELSE Word(Pow2(n - 16), 0)

\* x << k for k in 0..16: the low 32 bits shifted, read as signed
ShiftLeft(w, k) ==
    LET h    == w.hi % TwoTo16
        keep == Pow2(16 - k)
    IN  ToInt32(Word((h % keep) * Pow2(k) + (w.lo \div keep), (w.lo % keep) * Pow2(k)))

\* ~x
BitNot(w) ==
    LET h == w.hi % TwoTo16
    IN  ToInt32(Word((TwoTo16 - 1) - h, (TwoTo16 - 1) - w.lo))

RECURSIVE And16(_, _, _)
\* the bitwise and of two n-bit naturals
And16(a, b, n) ==
    IF n = 0 THEN 0
    ELSE 2 * And16(a \div 2, b \div 2, n - 1) + ((a % 2) * (b % 2))

\* x & y
BitAnd(x, y) ==
    ToInt32(Word(And16(x.hi % TwoTo16, y.hi % TwoTo16, 16), And16(x.lo, y.lo, 16)))

----------------------------------------------------------------------------
(* src/README.md: the pure functions of the hardened handler.              *)

RECURSIVE ipv4Reduce(_, _)
\* parts.reduce((acc, octet) => (acc << 8) + parseInt(octet, 10), acc)
ipv4Reduce(parts, acc) ==
    IF parts = <<>> THEN acc
    ELSE ipv4Reduce(Tail(parts), WordAdd(ShiftLeft(acc, 8), parseInt(Head(parts)).v))

ipv4ToInt(ip) == ToUint32(ipv4Reduce(Split(ip, "."), Word(0, 0)))

\* the mask as ~((1 << (32 - prefixLength)) - 1) would give it: a shift
\* count is taken modulo 32
cidrMaskShift(prefixLength) ==
    BitNot(WordDec(WordPow2((32 - prefixLength) % 32)))

\* ~(2 ** (32 - prefixLength) - 1)
cidrMask(prefixLength) == BitNot(WordDec(WordPow2(32 - prefixLength)))

\* ipInCidr with the mask ~(2 ** prefixLength - 1)
ipInCidrPrefixAsWidth(ip, cidr) ==
    LET parts        == Split(cidr, "/")
        range        == parts[1]
        prefixLength == parts[2]
        ipInt        == ipv4ToInt(ip)
        rangeInt     == ipv4ToInt(range)
        mask         == BitNot(WordDec(WordPow2(Number(prefixLength).v)))
    IN  BitAnd(ipInt, mask) = BitAnd(rangeInt, mask)

ipInCidr(ip, cidr) ==
    LET parts        == Split(cidr, "/")
        range        == parts[1]
        prefixLength == parts[2]
        ipInt        == ipv4ToInt(ip)
        rangeInt     == ipv4ToInt(range)
        mask         == cidrMask(Number(prefixLength).v)
    IN  BitAnd(ipInt, mask) = BitAnd(rangeInt, mask)

\* the block list without 192.0.0.0/24
cidrBlocksNoIetf ==
    << <<"0", ".", "0", ".", "0", ".", "0", "/", "8">>,
       <<"1", "0", ".", "0", ".", "0", ".", "0", "/", "8">>,
       <<"1", "2", "7", ".", "0", ".", "0", ".", "0", "/", "8">>,
       <<"1", "6", "9", ".", "2", "5", "4", ".", "0", ".", "0", "/", "1", "6">>,
       <<"1", "7", "2", ".", "1", "6", ".", "0", ".", "0", "/", "1", "2">>,
       <<"1", "9", "2", ".", "1", "6", "8", ".", "0", ".", "0", "/", "1", "6">>,
       <<"2", "5", "5", ".", "2", "5", "5", ".", "2", "5", "5", ".", "2", "5", "5", "/", "3", "2">> >>

cidrBlocks ==
    << <<"0", ".", "0", ".", "0", ".", "0", "/", "8">>,
       <<"1", "0", ".", "0", ".", "0", ".", "0", "/", "8">>,
       <<"1", "2", "7", ".", "0", ".", "0", ".", "0", "/", "8">>,
       <<"1", "6", "9", ".", "2", "5", "4", ".", "0", ".", "0", "/", "1", "6">>,
       <<"1", "7", "2", ".", "1", "6", ".", "0", ".", "0", "/", "1", "2">>,
       <<"1", "9", "2", ".", "0", ".", "0", ".", "0", "/", "2", "4">>,
       <<"1", "9", "2", ".", "1", "6", "8", ".", "0", ".", "0", "/", "1", "6">>,
       <<"2", "5", "5", ".", "2", "5", "5", ".", "2", "5", "5", ".", "2", "5", "5", "/", "3", "2">> >>

isPrivateOrReservedIP(ip) ==
    \E i \in 1..Len(cidrBlocks) : ipInCidr(ip, cidrBlocks[i])

\* the loop body without its leading-zero test
validPartLeadingZeros(part) ==
    /\ AllDigits(part)
    /\ ~(Less(Number(part), Num(0)) \/ Greater(Number(part), Num(255)))

\* the body of the loop over the parts
validPart(part) ==
    /\ AllDigits(part)
    /\ ~(Less(Number(part), Num(0)) \/ Greater(Number(part), Num(255)))
    /\ ~(Len(part) > 1 /\ part[1] = "0")

isValidIPv4(ip) ==
    LET parts == Split(ip, ".")
    IN  /\ Len(parts) = 4
        /\ \A i \in 1..Len(parts) : validPart(parts[i])

----------------------------------------------------------------------------
(* src/README.md: the hardened handler.                                    *)

\* the header value "max-age=31536000; includeSubDomains; preload" is kept
\* as the list of its directives, which "; " separates
responseHeaders ==
    ("Content-Type" :> "application/json; charset=utf-8")
    @@ ("X-Content-Type-Options" :> "nosniff")
    @@ ("Content-Security-Policy" :> "default-src 'none';")
    @@ ("Referrer-Policy" :> "no-referrer")
    @@ ("X-Frame-Options" :> "DENY")
    @@ ("Strict-Transport-Security" :>
            <<"max-age=31536000", "includeSubDomains", "preload">>)

\* { Location: steamUrl }
redirectHeadersLocationOnly(steamUrl) == ("Location" :> steamUrl)

\* { Location: steamUrl, ...responseHeaders }
redirectHeaders(steamUrl) ==
    [h \in {"Location"} \cup DOMAIN responseHeaders |->
        IF h \in DOMAIN responseHeaders THEN responseHeaders[h] ELSE steamUrl]

SteamScheme ==
    <<"s", "t", "e", "a", "m", ":", "/", "/", "c", "o", "n", "n", "e", "c", "t", "/">>

\* new Response(JSON.stringify({ error: message }), { status, headers })
JsonError(status, message) ==
    [outcome |-> "response", status |-> status,
     body |-> [kind |-> "json", error |-> message],
     headers |-> responseHeaders]

\* an exception that leaves fetch
Thrown == [outcome |-> "throw", status |-> 0,
           body |-> [kind |-> "none", error |-> ""],
           headers |-> [h \in {} |-> ""]]

MinPort == 1

MaxPort == 65535

\* portNumber < 0 || portNumber > 65535
portOutOfRangeFromZero(portNumber) ==
    Less(portNumber, Num(0)) \/ Greater(portNumber, Num(MaxPort))

\* portNumber < 1 || portNumber > 65535
portOutOfRange(portNumber) ==
    Less(portNumber, Num(MinPort)) \/ Greater(portNumber, Num(MaxPort))

\* `steam://connect/${ip}:${portNumber}`
hardenedSteamUrl(ip, portNumber) ==
    SteamScheme \o ip \o <<":">> \o NumberToString(portNumber)

\* the handler writing `${port}`, the parameter as given, into the target
hardenedFetchRawPort(req) ==
    IF ~req.urlOk THEN Thrown
    ELSE LET ip   == req.ip
             port == req.port
         IN  IF Falsy(ip) \/ Falsy(port)
             THEN JsonError(400, "Missing 'ip' and 'port' parameters.")
             ELSE IF ~isValidIPv4(ip)
             THEN JsonError(400, "'ip' parameter must be a valid IP address.")
             ELSE IF isPrivateOrReservedIP(ip)
             THEN JsonError(400, "Redirecting to private or reserved IP addresses is not allowed.")
             ELSE IF ~AllDigits(port)
             THEN JsonError(400, "'port' parameter must be a valid port number.")
             ELSE LET portNumber == parseInt(port)
                  IN  IF portOutOfRange(portNumber)
                      THEN JsonError(400, "'port' parameter must be between 1 and 65535.")
                      ELSE [outcome |-> "response", status |-> 301,
                            body |-> [kind |-> "null", error |-> ""],
                            headers |-> redirectHeaders(SteamScheme \o ip \o <<":">> \o port)]

\* the handler with the port checks before the reserved-range check
hardenedFetchPortFirst(req) ==
    IF ~req.urlOk THEN Thrown
    ELSE LET ip   == req.ip
             port == req.port
         IN  IF Falsy(ip) \/ Falsy(port)
             THEN JsonError(400, "Missing 'ip' and 'port' parameters.")
             ELSE IF ~isValidIPv4(ip)
             THEN JsonError(400, "'ip' parameter must be a valid IP address.")
             ELSE IF ~AllDigits(port)
             THEN JsonError(400, "'port' parameter must be a valid port number.")
             ELSE IF portOutOfRange(parseInt(port))
             THEN JsonError(400, "'port' parameter must be between 1 and 65535.")
             ELSE IF isPrivateOrReservedIP(ip)
             THEN JsonError(400, "Redirecting to private or reserved IP addresses is not allowed.")
             ELSE [outcome |-> "response", status |-> 301,
                   body |-> [kind |-> "null", error |-> ""],
                   headers |-> redirectHeaders(hardenedSteamUrl(ip, parseInt(port)))]

\* fetch(request) of the hardened handler; new URL(request.url) throws when
\* request.url is no URL, and nothing catches it
hardenedFetch(req) ==
    IF ~req.urlOk THEN Thrown
    ELSE LET ip   == req.ip
             port == req.port
         IN  IF Falsy(ip) \/ Falsy(port)
             THEN JsonError(400, "Missing 'ip' and 'port' parameters.")
             ELSE IF ~isValidIPv4(ip)
             THEN JsonError(400, "'ip' parameter must be a valid IP address.")
             ELSE IF isPrivateOrReservedIP(ip)
             THEN JsonError(400, "Redirecting to private or reserved IP addresses is not allowed.")
             ELSE IF ~AllDigits(port)
             THEN JsonError(400, "'port' parameter must be a valid port number.")
             ELSE LET portNumber == parseInt(port)
                  IN  IF portOutOfRange(portNumber)
                      THEN JsonError(400, "'port' parameter must be between 1 and 65535.")
                      ELSE [outcome |-> "response", status |-> 301,
                            body |-> [kind |-> "null", error |-> ""],
                            headers |-> redirectHeaders(hardenedSteamUrl(ip, portNumber))]

----------------------------------------------------------------------------
(* src/worker.js: the deployed handler.                                    *)

TextHeaders == ("Content-Type" :> "text/plain")

\* new Response(text, { status, headers: { "Content-Type": "text/plain" } })
TextResponse(status, text) ==
    [outcome |-> "response", status |-> status,
     body |-> [kind |-> "text", error |-> text],
     headers |-> TextHeaders]

\* one alternative (25[0-5]|2[0-4][0-9]|[01]?[0-9][0-9]?) of ipPattern,
\* matched against a whole part
octetPattern(part) ==
    /\ AllDigits(part)
    /\ \/ Len(part) \in {1, 2}
       \/ Len(part) = 3 /\ part[1] \in {"0", "1"}
       \/ Len(part) = 3 /\ part[1] = "2" /\ part[2] \in {"0", "1", "2", "3", "4"}
       \/ Len(part) = 3 /\ part[1] = "2" /\ part[2] = "5"
              /\ part[3] \in {"0", "1", "2", "3", "4", "5"}

\* ipPattern.test(ip): four alternatives with "." between them, anchored
ipPattern(ip) ==
    LET parts == Split(ip, ".")
    IN  Len(parts) = 4 /\ \A i \in 1..4 : octetPattern(parts[i])

\* `steam://connect/${ip}:${port}`
workerSteamUrl(ip, port) == SteamScheme \o ip \o <<":">> \o port

RECURSIVE TrimEnd(_)
TrimEnd(s) ==
    IF s # <<>> /\ s[Len(s)] \in WhiteSpace
    THEN TrimEnd(SubSeq(s, 1, Len(s) - 1))
    ELSE s

RECURSIVE PercentEncode(_)
\* the path percent-encode set, as far as the explored characters go: " "
PercentEncode(s) ==
    IF s = <<>> THEN <<>>
    ELSE (IF Head(s) = " " THEN <<"%", "2", "0">> ELSE <<Head(s)>>)
            \o PercentEncode(Tail(s))

\* the URL parser and serializer on a steam://connect/... string: spaces at
\* the ends are dropped, a space inside the path is written %20
UrlSerialize(url) == PercentEncode(TrimEnd(TrimStart(url)))

\* Response.redirect(steamUrl, 302): Location is the parsed URL, serialized
Redirect(steamUrl, status) ==
    [outcome |-> "response", status |-> status,
     body |-> [kind |-> "null", error |-> ""],
     headers |-> ("Location" :> UrlSerialize(steamUrl))]

\* fetch(request) of worker.js; the try block turns a throw of
\* new URL(request.url) into the 500 response
workerFetch(req) ==
    IF ~req.urlOk
    THEN TextResponse(500, "Internal Server Error: An unexpected error occurred.")
    ELSE LET ip   == req.ip
             port == req.port
         IN  IF Falsy(ip) \/ Falsy(port)
             THEN TextResponse(400, "Error: Missing one or more required parameters. 'ip' and 'port' are required.")
             ELSE IF ~ipPattern(ip)
             THEN TextResponse(400, "Error: 'ip' parameter must be a valid IPv4 address.")
             ELSE LET portNumber == parseInt(port)
                  IN  IF \/ isNaN(portNumber)
                         \/ Less(portNumber, Num(1))
                         \/ Greater(portNumber, Num(65535))
                      THEN TextResponse(400, "Error: 'port' parameter must be a valid port number between 1 and 65535.")
                      ELSE Redirect(workerSteamUrl(ip, port), 302)

----------------------------------------------------------------------------
(* The explored inputs.                                                    *)

Octets == 0..255

\* a.b.c.d written canonically
Render(o) ==
    NatToString(o[1]) \o <<".">> \o NatToString(o[2]) \o <<".">>
        \o NatToString(o[3]) \o <<".">> \o NatToString(o[4])

RECURSIVE Zeros(_)
Zeros(k) == IF k = 0 THEN <<>> ELSE <<"0">> \o Zeros(k - 1)

\* the address after o and the address before o, as four-octet counters
NextAddr(o) ==
    IF o[4] < 255 THEN <<o[1], o[2], o[3], o[4] + 1>>
    ELSE IF o[3] < 255 THEN <<o[1], o[2], o[3] + 1, 0>>
    ELSE IF o[2] < 255 THEN <<o[1], o[2] + 1, 0, 0>>
    ELSE IF o[1] < 255 THEN <<o[1] + 1, 0, 0, 0>>
    ELSE o

PrevAddr(o) ==
    IF o[4] > 0 THEN <<o[1], o[2], o[3], o[4] - 1>>
    ELSE IF o[3] > 0 THEN <<o[1], o[2], o[3] - 1, 255>>
    ELSE IF o[2] > 0 THEN <<o[1], o[2] - 1, 255, 255>>
    ELSE IF o[1] > 0 THEN <<o[1] - 1, 255, 255, 255>>
    ELSE o

RECURSIVE Around(_, _)
\* the addresses at most k steps from o
Around(o, k) ==
    IF k = 0 THEN {o}
    ELSE Around(o, k - 1)
           \cup {NextAddr(a) : a \in Around(o, k - 1)}
           \cup {PrevAddr(a) : a \in Around(o, k - 1)}

\* the first and the last address of each reserved range
RangeEdges ==
    { <<0, 0, 0, 0>>, <<0, 255, 255, 255>>,
      <<10, 0, 0, 0>>, <<10, 255, 255, 255>>,
      <<127, 0, 0, 0>>, <<127, 255, 255, 255>>,
      <<169, 254, 0, 0>>, <<169, 254, 255, 255>>,
      <<172, 16, 0, 0>>, <<172, 31, 255, 255>>,
      <<192, 0, 0, 0>>, <<192, 0, 0, 255>>,
      <<192, 168, 0, 0>>, <<192, 168, 255, 255>>,
      <<255, 255, 255, 255>> }

SampleAddrs ==
    { <<51, 68, 200, 55>>, <<10, 0, 0, 5>>, <<127, 0, 0, 1>>, <<192, 168, 1, 1>>,
      <<169, 254, 1, 1>>, <<172, 16, 0, 1>>, <<172, 20, 7, 9>>, <<192, 0, 0, 5>>,
      <<128, 0, 0, 0>>, <<200, 100, 50, 25>>, <<8, 8, 8, 8>> }

Addrs == SampleAddrs \cup UNION {Around(e, OctetSpread) : e \in RangeEdges}

\* strings that are no canonical dotted quad
MalformedIps ==
    { <<"1", ".", "2", ".", "3">>,
      <<"1", ".", "2", ".", "3", ".", "4", ".", "5">>,
      <<"5", "1", ".", "6", "8", ".", "2", "0", "0", ".">>,
      <<".", "6", "8", ".", "2", "0", "0", ".", "5", "5">>,
      <<"5", "1", ".", ".", "2", "0", "0", ".", "5", "5">>,
      <<"5", "1", ".", "6", "8", ".", "2", "0", "0", ".", "2", "5", "6">>,
      <<"5", "1", ".", "6", "8", ".", "2", "0", "0", ".", "9", "9", "9">>,
      <<"3", "0", "0", ".", "6", "8", ".", "2", "0", "0", ".", "5">>,
      <<"5", "1", ".", "6", "8", ".", "2", "0", "0", ".", "5", "a">>,
      <<"5", "1", ".", "6", "8", ".", "2", "0", "0", ".", "-", "1">>,
      <<"5", "1", ".", "6", "8", ".", "2", "0", "0", ".", "+", "5">>,
      <<"5", "1", ".", "6", "8", ".", "2", "0", "0", ".", " ", "5">>,
      <<"5", "1", ".", "6", "8", ".", "2", "0", "0", ".", "5", " ">>,
      <<" ", "5", "1", ".", "6", "8", ".", "2", "0", "0", ".", "5">>,
      <<"a", ".", "b", ".", "c", ".", "d">>,
      <<"5", "1", ",", "6", "8", ",", "2", "0", "0", ",", "5", "5">>,
      <<"1", "0", ".", "0", ".", "0", ".", "2", "5", "6">>,
      <<"1", "2", "7", ".", "0", ".", "0">> }
    \cup { Zeros(k) \o <<"5", "5">> \o <<".", "6", "8", ".", "2", "0", "0", ".", "5">>
             : k \in 1..MaxLeadingZeros }
    \cup { <<"5", "1", ".", "6", "8", ".", "2", "0", "0", ".">> \o Zeros(k) \o <<"5", "5">>
             : k \in 1..MaxLeadingZeros }
    \cup { <<"5", "1", ".", "6", "8", ".", "2", "0", "0", ".">> \o Zeros(k) \o <<"0">>
             : k \in 1..MaxLeadingZeros }
    \cup { <<"1", "0", ".", "0", ".", "0", ".">> \o Zeros(k) \o <<"5">>
             : k \in 1..MaxLeadingZeros }

IpInputs == {NULL, <<>>} \cup {Render(o) : o \in Addrs} \cup MalformedIps

PortCores ==
    { <<"0">>, <<"1">>, <<"8", "0">>, <<"2", "7", "0", "1", "5">>,
      <<"6", "5", "5", "3", "5">>, <<"6", "5", "5", "3", "6">>,
      <<"7", "0", "0", "0", "0">>, <<"1", "0", "0", "0", "0", "0", "0">> }

\* what is put before and after the digits of a port
PortDecor ==
    { <<<<>>, <<>>>>, <<<<"+">>, <<>>>>, <<<<"-">>, <<>>>>, <<<<" ">>, <<>>>>,
      <<<<>>, <<" ">>>>, <<<<>>, <<"a", "b", "c">>>>, <<<<>>, <<".", "5">>>> }

PortInputs ==
    {NULL, <<>>, <<"a", "b", "c">>, <<" ">>, <<"+">>, <<"-">>}
    \cup { d[1] \o Zeros(k) \o c \o d[2] :
             d \in PortDecor, k \in 0..MaxLeadingZeros, c \in PortCores }

\* the inputs every address, and every port, is paired with
SampleIps ==
    {NULL, <<>>}
    \cup {Render(o) : o \in {<<51, 68, 200, 55>>, <<10, 0, 0, 5>>, <<8, 8, 8, 8>>,
                              <<192, 168, 1, 1>>, <<255, 255, 255, 255>>}}
    \cup { <<"1", ".", "2", ".", "3">>, <<"a", ".", "b", ".", "c", ".", "d">>,
           <<"5", "1", ".", "6", "8", ".", "2", "0", "0", ".", "0", "5", "5">>,
           <<"1", "0", ".", "0", ".", "0", ".", "0", "5">> }

SamplePorts ==
    { NULL, <<>>, <<"2", "7", "0", "1", "5">>, <<"0", "2", "7", "0", "1", "5">>,
      <<"0">>, <<"6", "5", "5", "3", "6">>, <<"a", "b", "c">>, <<"+", "8", "0">>,
      <<"2", "7", "0", "1", "5", "a", "b", "c">> }

\* a request whose URL parses carries the two parameters; one whose URL
\* does not parse carries none
Requests ==
    [urlOk : {TRUE}, ip : IpInputs, port : SamplePorts]
    \cup [urlOk : {TRUE}, ip : SampleIps, port : PortInputs]
    \cup {[urlOk |-> FALSE, ip |-> NULL, port |-> NULL]}

----------------------------------------------------------------------------
(* The handlers as a state machine: one request in, one outcome out.  The   *)
(* handlers keep nothing between requests, so a behaviour follows a single *)
(* invocation from the idle state to its outcome.                          *)

NoRequest == [urlOk |-> TRUE, ip |-> NULL, port |-> NULL]

NoCall == [fn |-> "none", ipOctets |-> <<0, 0, 0, 0>>, baseOctets |-> <<0, 0, 0, 0>>,
           prefix |-> 0, ip |-> <<>>, cidr |-> <<>>]

Init ==
    /\ variant = "none"
    /\ request = NoRequest
    /\ response = Thrown
    /\ call = NoCall
    /\ ret = FALSE

HardenedFetch ==
    /\ variant = "none"
    /\ \E req \in Requests :
        /\ variant' = "hardened"
        /\ request' = req
        /\ response' = hardenedFetch(req)
        /\ UNCHANGED <<call, ret>>

WorkerFetch ==
    /\ variant = "none"
    /\ \E req \in Requests :
        /\ variant' = "worker"
        /\ request' = req
        /\ response' = workerFetch(req)
        /\ UNCHANGED <<call, ret>>

Next == HardenedFetch \/ WorkerFetch

Spec == Init /\ [][Next]_vars

----------------------------------------------------------------------------
(* What the specification says of a request, stated without the handlers'  *)
(* own functions.                                                          *)

Present(v) == v # NULL /\ v # <<>>

OnlyDigits(s) == \A i \in 1..Len(s) : s[i] \in DigitChars

RECURSIVE Decimal(_, _)
\* the value of the digits of s read from the left, after acc
Decimal(s, acc) ==
    IF s = <<>> THEN acc ELSE Decimal(Tail(s), 10 * acc + DigitVal(Head(s)))

\* a segment of a dotted quad: not empty, digits only, 0..255, no leading
\* "0" unless it is "0"
SegmentOk(seg) ==
    /\ seg # <<>>
    /\ OnlyDigits(seg)
    /\ Decimal(seg, 0) \in Octets
    /\ (seg[1] = "0" => seg = <<"0">>)

DottedQuad(ip) ==
    LET parts == Split(ip, ".")
    IN  Len(parts) = 4 /\ \A i \in 1..4 : SegmentOk(parts[i])

\* the four octets a string of four digit segments names
OctetsOf(ip) == [i \in 1..4 |-> Decimal(Split(ip, ".")[i], 0)]

\* a.b.c.d is at or before e.f.g.h
AddrLeq(x, y) ==
    \/ x = y
    \/ \E i \in 1..4 : x[i] < y[i] /\ \A j \in 1..(i - 1) : x[j] = y[j]

ReservedRanges ==
    { <<<<0, 0, 0, 0>>, <<0, 255, 255, 255>>>>,
      <<<<10, 0, 0, 0>>, <<10, 255, 255, 255>>>>,
      <<<<127, 0, 0, 0>>, <<127, 255, 255, 255>>>>,
      <<<<169, 254, 0, 0>>, <<169, 254, 255, 255>>>>,
      <<<<172, 16, 0, 0>>, <<172, 31, 255, 255>>>>,
      <<<<192, 0, 0, 0>>, <<192, 0, 0, 255>>>>,
      <<<<192, 168, 0, 0>>, <<192, 168, 255, 255>>>>,
      <<<<255, 255, 255, 255>>, <<255, 255, 255, 255>>>> }

InReservedRange(o) ==
    \E r \in ReservedRanges : AddrLeq(r[1], o) /\ AddrLeq(o, r[2])

\* the string names, leading zeros or not, an address of a reserved range
NamesReserved(addr) ==
    LET parts == Split(addr, ".")
    IN  /\ Len(parts) = 4
        /\ \A i \in 1..4 : parts[i] # <<>> /\ OnlyDigits(parts[i])
                              /\ Decimal(parts[i], 0) \in Octets
        /\ InReservedRange(OctetsOf(addr))

PortIsDigits(port) == port # <<>> /\ OnlyDigits(port)

PortInInterval(port) == Decimal(port, 0) >= 1 /\ Decimal(port, 0) <= 65535

RECURSIVE StripZeros(_)
\* a digit string without its leading zeros
StripZeros(s) == IF Len(s) > 1 /\ s[1] = "0" THEN StripZeros(Tail(s)) ELSE s

MsgMissing == "Missing 'ip' and 'port' parameters."

MsgIpSyntax == "'ip' parameter must be a valid IP address."

MsgReserved == "Redirecting to private or reserved IP addresses is not allowed."

MsgPortSyntax == "'port' parameter must be a valid port number."

MsgPortRange == "'port' parameter must be between 1 and 65535."

\* the first check, in the order of the specification, that the request fails
FirstFailure(req) ==
    IF ~(Present(req.ip) /\ Present(req.port)) THEN MsgMissing
    ELSE IF ~DottedQuad(req.ip) THEN MsgIpSyntax
    ELSE IF InReservedRange(OctetsOf(req.ip)) THEN MsgReserved
    ELSE IF ~PortIsDigits(req.port) THEN MsgPortSyntax
    ELSE IF ~PortInInterval(req.port) THEN MsgPortRange
    ELSE "none"

Handled(v) == variant = v /\ request.urlOk

IsResponse == response.outcome = "response"

HasLocation == IsResponse /\ "Location" \in DOMAIN response.headers

Location == response.headers["Location"]

Rejected(msg) ==
    /\ IsResponse
    /\ response.status = 400
    /\ response.body = [kind |-> "json", error |-> msg]
    /\ ~HasLocation

\* what follows "steam://connect/" in the Location, cut at its last ":"
LocationTail == SubSeq(Location, Len(SteamScheme) + 1, Len(Location))

LastColon(s) == CHOOSE i \in 1..Len(s) : s[i] = ":" /\ \A j \in (i + 1)..Len(s) : s[j] # ":"

LocationAddr == SubSeq(LocationTail, 1, LastColon(LocationTail) - 1)

LocationPort == SubSeq(LocationTail, LastColon(LocationTail) + 1, Len(LocationTail))

Sample == Render(<<51, 68, 200, 55>>)

----------------------------------------------------------------------------
(* The claims about the hardened handler.                                  *)

\* C1: the hardened handler never answers with a Location that names an
\* address of the 8 reserved blocks, and a request with a present, valid,
\* reserved ip and a present port gets 400 with the reserved-address error,
\* whatever the port is.
C1_ReservedNeverRedirected ==
    Handled("hardened") =>
        /\ HasLocation => ~NamesReserved(LocationAddr)
        /\ ( /\ Present(request.ip) /\ Present(request.port)
             /\ DottedQuad(request.ip)
             /\ InReservedRange(OctetsOf(request.ip)) )
           => Rejected(MsgReserved)

C1_Witness ==
    /\ Handled("hardened")
    /\ request.ip = Render(<<10, 0, 0, 5>>)
    /\ request.port = <<"a", "b", "c">>
    /\ Rejected(MsgReserved)

\* C2: a request that passes all five checks gets status 301, an empty
\* body and Location = "steam://connect/" + ip + ":" + the port without its
\* leading zeros.
C2_RedirectTarget ==
    (Handled("hardened") /\ FirstFailure(request) = "none") =>
        /\ IsResponse
        /\ response.status = 301
        /\ response.body.kind = "null"
        /\ HasLocation
        /\ Location = SteamScheme \o request.ip \o <<":">> \o StripZeros(request.port)

C2_Witness ==
    /\ Handled("hardened")
    /\ request.ip = Sample
    /\ request.port = <<"0", "2", "7", "0", "1", "5">>
    /\ response.status = 301
    /\ Location = SteamScheme \o Sample \o <<":", "2", "7", "0", "1", "5">>

\* C3: a request that fails a check gets status 400 with the message of the
\* first failing check in the order presence, ip syntax, reserved range,
\* port digits, port range, and no Location.
C3_FirstFailingCheck ==
    (Handled("hardened") /\ FirstFailure(request) # "none") =>
        Rejected(FirstFailure(request))

C3_Witness ==
    /\ Handled("hardened")
    /\ request.ip = Render(<<10, 0, 0, 5>>)
    /\ request.port = <<"6", "5", "5", "3", "6">>
    /\ FirstFailure(request) = MsgReserved
    /\ ~PortInInterval(request.port)
    /\ Rejected(MsgReserved)

SecurityHeaders ==
    ("X-Content-Type-Options" :> "nosniff")
    @@ ("Content-Security-Policy" :> "default-src 'none';")
    @@ ("Referrer-Policy" :> "no-referrer")
    @@ ("X-Frame-Options" :> "DENY")

\* C4: every response of the hardened handler, redirect or rejection,
\* carries the five security headers with the same values; the
\* Strict-Transport-Security value has max-age=31536000 and
\* includeSubDomains.
C4_SecurityHeaders ==
    (variant = "hardened" /\ IsResponse) =>
        /\ \A h \in DOMAIN SecurityHeaders :
              /\ h \in DOMAIN response.headers
              /\ response.headers[h] = SecurityHeaders[h]
        /\ "Strict-Transport-Security" \in DOMAIN response.headers
        /\ LET sts == response.headers["Strict-Transport-Security"]
           IN  /\ \E i \in 1..Len(sts) : sts[i] = "max-age=31536000"
               /\ \E i \in 1..Len(sts) : sts[i] = "includeSubDomains"

C4_Witness ==
    /\ variant = "hardened"
    /\ HasLocation
    /\ response.status = 301
    /\ response.headers["X-Frame-Options"] = "DENY"

\* C5: an internal fault while handling a request (request.url does not
\* parse) still ends in a response, with status 500.
C5_FaultBecomes500 ==
    (variant = "hardened" /\ ~request.urlOk) =>
        (IsResponse /\ response.status = 500)

\* C6: isValidIPv4 is true exactly of the strings of four segments, each
\* non-empty, all digits, in 0..255 and without a leading zero; when it is
\* false of the ip the handler checks, the answer is 400 with the ip-syntax
\* error.
C6_ValidIPv4 ==
    Handled("hardened") =>
        /\ request.ip # NULL => (isValidIPv4(request.ip) <=> DottedQuad(request.ip))
        /\ ( /\ Present(request.ip) /\ Present(request.port)
             /\ ~DottedQuad(request.ip) )
           => Rejected(MsgIpSyntax)

C6_Witness ==
    /\ Handled("hardened")
    /\ request.ip = <<"5", "1", ".", "6", "8", ".", "2", "0", "0", ".", "0", "5", "5">>
    /\ request.port = <<"2", "7", "0", "1", "5">>
    /\ ~isValidIPv4(request.ip)
    /\ Rejected(MsgIpSyntax)

\* C7: with a present, valid, unreserved ip, the port is accepted exactly
\* when it is one or more digits denoting 1..65535; a port with another
\* character gets the port-syntax error, digits outside the interval the
\* port-range error, both with status 400.
C7_PortAccepted ==
    ( /\ Handled("hardened")
      /\ Present(request.ip)
      /\ DottedQuad(request.ip)
      /\ ~InReservedRange(OctetsOf(request.ip)) )
    => /\ (IsResponse /\ response.status = 301)
            <=> ( /\ Present(request.port)
                  /\ PortIsDigits(request.port)
                  /\ PortInInterval(request.port) )
       /\ IsResponse /\ response.status \in {301, 400}
       /\ (Present(request.port) /\ ~PortIsDigits(request.port))
            => Rejected(MsgPortSyntax)
       /\ ( /\ Present(request.port) /\ PortIsDigits(request.port)
            /\ ~PortInInterval(request.port) )
            => Rejected(MsgPortRange)

C7_Witness ==
    /\ Handled("hardened")
    /\ request.ip = Sample
    /\ request.port = <<"0", "0", "0", "8", "0">>
    /\ response.status = 301
    /\ LocationPort = <<"8", "0">>

\* C10: isPrivateOrReservedIP is true of a valid address exactly when it
\* lies in one of the 8 ranges, and an address outside them, with a valid
\* port, is redirected.
C10_ReservedExactly ==
    (Handled("hardened") /\ Present(request.ip) /\ DottedQuad(request.ip)) =>
        /\ isPrivateOrReservedIP(request.ip) <=> InReservedRange(OctetsOf(request.ip))
        /\ ( /\ ~InReservedRange(OctetsOf(request.ip))
             /\ Present(request.port)
             /\ PortIsDigits(request.port)
             /\ PortInInterval(request.port) )
           => (IsResponse /\ response.status = 301 /\ HasLocation)

C10_Witness ==
    /\ Handled("hardened")
    /\ request.ip = Render(<<172, 32, 0, 0>>)
    /\ request.port = <<"2", "7", "0", "1", "5">>
    /\ ~isPrivateOrReservedIP(request.ip)
    /\ response.status = 301

----------------------------------------------------------------------------
(* The claim about src/worker.js.                                          *)

\* C8: the handler of worker.js redirects only for a port that is a number
\* in 1..65535: a port with a character that is no digit gets 400, and the
\* port after the colon of every redirect target is a decimal integer in
\* 1..65535.
C8_WorkerPortIsNumber ==
    Handled("worker") =>
        /\ (Present(request.port) /\ ~OnlyDigits(request.port))
              => (IsResponse /\ response.status = 400)
        /\ HasLocation =>
              (PortIsDigits(LocationPort) /\ PortInInterval(LocationPort))

----------------------------------------------------------------------------
(* ipInCidr on its own: one call, for an address, a base and a prefix      *)
(* length.                                                                 *)

MaxPrefix == 32

CidrBases ==
    { <<0, 0, 0, 0>>, <<10, 0, 0, 0>>, <<127, 255, 255, 255>>, <<128, 0, 0, 0>>,
      <<172, 16, 0, 0>>, <<192, 168, 0, 0>>, <<200, 100, 50, 25>>,
      <<255, 255, 255, 255>> }

CallIpInCidr ==
    /\ call.fn = "none"
    /\ \E a \in Addrs, b \in CidrBases, p \in 0..MaxPrefix :
          LET ip   == Render(a)
              cidr == Render(b) \o <<"/">> \o NatToString(p)
          IN  /\ call' = [fn |-> "ipInCidr", ipOctets |-> a, baseOctets |-> b,
                          prefix |-> p, ip |-> ip, cidr |-> cidr]
              /\ ret' = ipInCidr(ip, cidr)
    /\ UNCHANGED <<variant, request, response>>

NextCidr == CallIpInCidr

SpecCidr == Init /\ [][NextCidr]_vars

\* a.b.c.d as the unsigned 32-bit value a*2^24 + b*2^16 + c*2^8 + d
Unsigned(o) == Word(o[1] * 256 + o[2], o[3] * 256 + o[4])

\* bit i (0 the lowest) of the 32-bit pattern of w
BitOf(w, i) ==
    IF i >= 16 THEN ((w.hi % TwoTo16) \div Pow2(i - 16)) % 2 = 1
    ELSE (w.lo \div Pow2(i)) % 2 = 1

\* how many bits of octet k (1 the first) lie in a prefix of p bits
BitsIn(k, p) ==
    IF p - 8 * (k - 1) >= 8 THEN 8
    ELSE IF p - 8 * (k - 1) <= 0 THEN 0
    ELSE p - 8 * (k - 1)

\* x and y have the same top p bits
TopBitsAgree(x, y, p) ==
    \A k \in 1..4 :
        x[k] \div Pow2(8 - BitsIn(k, p)) = y[k] \div Pow2(8 - BitsIn(k, p))

\* C9: ipv4ToInt gives a.b.c.d as the unsigned value a*2^24 + b*2^16 +
\* c*2^8 + d; the mask of a prefix length p in 0..32 has exactly its top p
\* bits set; ipInCidr is true exactly when address and base agree on their
\* top p bits, also for a first octet of 128 or more.
C9_MaskAndMembership ==
    call.fn = "ipInCidr" =>
        /\ ipv4ToInt(call.ip) = Unsigned(call.ipOctets)
        /\ ipv4ToInt(Render(call.baseOctets)) = Unsigned(call.baseOctets)
        /\ \A i \in 0..31 :
              BitOf(cidrMask(call.prefix), i) <=> (i >= 32 - call.prefix)
        /\ ret <=> TopBitsAgree(call.ipOctets, call.baseOctets, call.prefix)

C9_Witness ==
    /\ call.fn = "ipInCidr"
    /\ call.ipOctets = <<255, 255, 255, 254>>
    /\ call.baseOctets = <<255, 255, 255, 255>>
    /\ call.prefix = 31
    /\ ipv4ToInt(call.ip) = Word(65535, 65534)
    /\ ret

====
